---- MODULE Spec2Model ----
(***************************************************************************)
(* Model of the soledit crate: the .sol container codec (Sol::write,       *)
(* read_from_file), the AMF0 value codec (write_value, read_value,         *)
(* read_key_and_type, read_amf0) and the editor's per-frame traversal      *)
(* (ui_amf0, ui_amf3).                                                     *)
(*                                                                         *)
(* Strings are sequences of UTF-8 bytes, an f64 is its eight big-endian    *)
(* bytes, a file or sink is a sequence of bytes with a cursor position.    *)
(***************************************************************************)
EXTENDS Integers, Sequences, FiniteSets, TLC

VARIABLES sol, disk, st, lastOp, res, src, foreign, origin, prev, damaged, filter_string, frame

vars == <<sol, disk, st, lastOp, res, src, foreign, origin, prev, damaged, filter_string, frame>>

(***************************************************************************)
(* Bounds of the model.                                                    *)
(***************************************************************************)
MaxPairs == 2
MaxStrLen == 1
MaxPre == 1
MaxTamperLen == 28

(***************************************************************************)
(* Program constants.                                                      *)
(***************************************************************************)
U16Mod == 65536
HeaderOffset == 6
ObjectEnd == 9

BF_MAGIC == <<0, 191>>
TCSO_MAGIC == <<84, 67, 83, 79>>
TAIL_MAGIC == <<0, 4, 0, 0, 0, 0>>

Amf0ID == 0
Amf3ID == 3

NUM == 0
BOOL == 1
STRING_ == 2
OBJECT == 3

(***************************************************************************)
(* Values.  Amf0Value is a tagged record; Pair is amf::Pair<String, T>.    *)
(***************************************************************************)
Num(b) == [t |-> "Num", v |-> b]
Bool(b) == [t |-> "Bool", v |-> b]
String(s) == [t |-> "String", v |-> s]
Object(o) == [t |-> "Object", v |-> o]

Pair(k, v) == [key |-> k, value |-> v]

type_(value) ==
    CASE value.t = "Num" -> NUM
      [] value.t = "Bool" -> BOOL
      [] value.t = "String" -> STRING_
      [] value.t = "Object" -> OBJECT

NoSol == [ver |-> -1]

Sol(ver, len, root_name, root_object) ==
    [ver |-> ver, len |-> len, root_name |-> root_name, root_object |-> root_object]

New(root_name, amf) == Sol(Amf0ID, <<0, 0, 0, 0>>, root_name, amf)

(***************************************************************************)
(* Input domains.                                                          *)
(***************************************************************************)
Rep(n, c) == [i \in 1..n |-> c]

\* keys and strings "", "n", ..; root names "" and "x"; strings of 65535 and
\* 65536 times "a"
ShortStrs == {Rep(n, 110) : n \in 0..MaxStrLen}
RootNames == {<<>>, <<120>>}
LongStrs == {Rep(n, 97) : n \in {U16Mod - 1, U16Mod}}

F64_3_5 == <<64, 12, 0, 0, 0, 0, 0, 0>>

Scalars == {Num(F64_3_5)} \cup {Bool(b) : b \in BOOLEAN} \cup {String(s) : s \in ShortStrs}

RECURSIVE ListsOf(_)
RECURSIVE ValsOf(_)
\* pair lists with at most n pairs in the whole tree, nested members included
ListsOf(n) ==
    IF n = 0 THEN {<<>>}
    ELSE {<<>>} \cup UNION { { <<Pair(k, v)>> \o rest :
                                 k \in ShortStrs, v \in ValsOf(m), rest \in ListsOf(n - 1 - m) } :
                             m \in 0..(n - 1) }
ValsOf(m) == Scalars \cup {Object(l) : l \in ListsOf(m)}

LongDocs ==
    UNION { { New(L, <<>>),
              New(<<120>>, <<Pair(L, Bool(TRUE))>>),
              New(<<120>>, <<Pair(<<110>>, String(L))>>) } : L \in LongStrs }

Docs == {New(r, l) : r \in RootNames, l \in ListsOf(MaxPairs)} \cup LongDocs

RECURSIVE HasObject(_)
HasObject(list) ==
    IF list = <<>> THEN FALSE
    ELSE list[1].value.t = "Object" \/ HasObject(Tail(list))

(***************************************************************************)
(* Binary cursor I/O over a seekable sink [buf, pos].                      *)
(***************************************************************************)
Sink(buf, pos) == [buf |-> buf, pos |-> pos]

\* Write::write_all on a seekable sink: overwrite at pos, extend at the end
write_all(w, bytes) ==
    Sink(SubSeq(w.buf, 1, w.pos) \o bytes
           \o SubSeq(w.buf, w.pos + Len(bytes) + 1, Len(w.buf)),
         w.pos + Len(bytes))

\* `n as u16` followed by write_u16::<BE>
u16_be(n) == <<((n % U16Mod) \div 256) % 256, n % 256>>

\* `n as u32` followed by write_u32::<BE>: the four low-order bytes
u32_be(n) == <<(n \div 16777216) % 256, (n \div 65536) % 256, (n \div 256) % 256, n % 256>>

\* read_u16::<BE> of the bytes at pos+1..
get_u16(data, pos) == data[pos + 1] * 256 + data[pos + 2]

\* read_u32::<BE>: a u32 is kept as its four big-endian bytes
get_u32(data, pos) == SubSeq(data, pos + 1, pos + 4)

\* a < b for two u32 values
U32Less(a, b) ==
    \E i \in 1..4 : a[i] < b[i] /\ \A j \in 1..(i - 1) : a[j] = b[j]

(***************************************************************************)
(* AMF0 encoder.  A result is [w, ok]; ok = FALSE is the todo!() panic,    *)
(* which leaves in the sink everything written before it.                  *)
(***************************************************************************)
write_key_and_type(pair, w) ==
    write_all(write_all(write_all(w, u16_be(Len(pair.key))), pair.key),
              <<type_(pair.value)>>)

write_value(value, w) ==
    CASE value.t = "Num" -> [w |-> write_all(w, value.v), ok |-> TRUE]
      [] value.t = "Bool" -> [w |-> write_all(w, <<IF value.v THEN 1 ELSE 0>>), ok |-> TRUE]
      [] value.t = "String" ->
            [w |-> write_all(write_all(w, u16_be(Len(value.v))), value.v), ok |-> TRUE]
      [] value.t = "Object" -> [w |-> w, ok |-> FALSE]

RECURSIVE write_pairs(_, _)
write_pairs(list, w) ==
    IF list = <<>> THEN [w |-> w, ok |-> TRUE]
    ELSE LET r == write_value(list[1].value, write_key_and_type(list[1], w))
         IN IF ~r.ok THEN r
            ELSE write_pairs(Tail(list), write_all(r.w, <<0>>))

\* write_amf returning the bytes of the value list alone
write_amf_body(s, w) ==
    LET r == write_pairs(s.root_object, w)
    IN [w |-> r.w, ok |-> r.ok, len |-> r.w.pos - w.pos]

\* <Sol<Amf0> as AmfWrite>::write_amf: the returned length is end_pos - 6
write_amf(s, w) ==
    LET r == write_pairs(s.root_object, w)
    IN [w |-> r.w, ok |-> r.ok, len |-> r.w.pos - HeaderOffset]

\* Sol::write patching the declared len of the Sol
SolWrite_declared(s, w0) ==
    LET w1 == write_all(w0, BF_MAGIC)
        len_pos == w1.pos
        w8 == write_all(write_all(write_all(write_all(write_all(write_all(write_all(w1,
                 u32_be(0)), TCSO_MAGIC), TAIL_MAGIC), u16_be(Len(s.root_name))),
                 s.root_name), <<0, 0, 0>>), <<Amf0ID>>)
        r == write_amf(s, w8)
    IN IF ~r.ok THEN [w |-> r.w, ok |-> FALSE]
       ELSE [w |-> write_all(Sink(r.w.buf, len_pos), s.len), ok |-> TRUE]

\* Sol::write
SolWrite(s, w0) ==
    LET w1 == write_all(w0, BF_MAGIC)
        len_pos == w1.pos
        w2 == write_all(w1, u32_be(0))
        w3 == write_all(w2, TCSO_MAGIC)
        w4 == write_all(w3, TAIL_MAGIC)
        w5 == write_all(w4, u16_be(Len(s.root_name)))
        w6 == write_all(w5, s.root_name)
        w7 == write_all(w6, <<0, 0, 0>>)
        w8 == write_all(w7, <<Amf0ID>>)
        r == write_amf(s, w8)
    IN IF ~r.ok THEN [w |-> r.w, ok |-> FALSE]
       ELSE [w |-> write_all(Sink(r.w.buf, len_pos), u32_be(r.len)), ok |-> TRUE]

(***************************************************************************)
(* UTF-8 validation (std::str::from_utf8).                                 *)
(***************************************************************************)
IsCont(s, i) == i <= Len(s) /\ s[i] >= 128 /\ s[i] <= 191

RECURSIVE Utf8From(_, _)
Utf8From(s, i) ==
    IF i > Len(s) THEN TRUE
    ELSE LET b == s[i]
         IN CASE b < 128 -> Utf8From(s, i + 1)
              [] b >= 194 /\ b <= 223 -> IsCont(s, i + 1) /\ Utf8From(s, i + 2)
              [] b >= 224 /\ b <= 239 ->
                    /\ IsCont(s, i + 1) /\ IsCont(s, i + 2)
                    /\ (b = 224 => s[i + 1] >= 160)
                    /\ (b = 237 => s[i + 1] <= 159)
                    /\ Utf8From(s, i + 3)
              [] b >= 240 /\ b <= 244 ->
                    /\ IsCont(s, i + 1) /\ IsCont(s, i + 2) /\ IsCont(s, i + 3)
                    /\ (b = 240 => s[i + 1] >= 144)
                    /\ (b = 244 => s[i + 1] <= 143)
                    /\ Utf8From(s, i + 4)
              [] OTHER -> FALSE

from_utf8_ok(s) == IF \A i \in 1..Len(s) : s[i] < 128 THEN TRUE ELSE Utf8From(s, 1)

(***************************************************************************)
(* AMF0 decoder.  Every read is followed by unwrap(): a failed read is a   *)
(* panic, recorded as ok = FALSE with the reason in why.                   *)
(***************************************************************************)
Fail(why) == [ok |-> FALSE, why |-> why]

\* read_exact of n bytes at pos succeeds iff the bytes are there
CanRead(data, pos, n) == pos + n <= Len(data)

read_key_and_type(data, pos) ==
    IF ~CanRead(data, pos, 2) THEN Fail("UnexpectedEof")
    ELSE LET key_len == get_u16(data, pos)
             p1 == pos + 2
         IN IF ~CanRead(data, p1, key_len) THEN Fail("UnexpectedEof")
            ELSE LET key == SubSeq(data, p1 + 1, p1 + key_len)
                     p2 == p1 + key_len
                 IN IF ~from_utf8_ok(key) THEN Fail("Utf8Decode")
                    ELSE IF ~CanRead(data, p2, 1) THEN Fail("UnexpectedEof")
                    ELSE [ok |-> TRUE, why |-> "", key |-> key, type |-> data[p2 + 1],
                          pos |-> p2 + 1]

RECURSIVE read_value(_, _, _)
RECURSIVE read_members(_, _, _)
read_value(type, data, pos) ==
    CASE type = NUM ->
            IF ~CanRead(data, pos, 8) THEN Fail("UnexpectedEof")
            ELSE [ok |-> TRUE, why |-> "", value |-> Num(SubSeq(data, pos + 1, pos + 8)),
                  pos |-> pos + 8]
      [] type = BOOL ->
            IF ~CanRead(data, pos, 1) THEN Fail("UnexpectedEof")
            ELSE [ok |-> TRUE, why |-> "", value |-> Bool(data[pos + 1] # 0), pos |-> pos + 1]
      [] type = STRING_ ->
            IF ~CanRead(data, pos, 2) THEN Fail("UnexpectedEof")
            ELSE LET len == get_u16(data, pos)
                     buf == SubSeq(data, pos + 3, pos + 2 + len)
                 IN IF ~CanRead(data, pos + 2, len) THEN Fail("UnexpectedEof")
                    ELSE IF ~from_utf8_ok(buf) THEN Fail("Utf8Decode")
                    ELSE [ok |-> TRUE, why |-> "", value |-> String(buf), pos |-> pos + 2 + len]
      [] type = OBJECT -> read_members(data, pos, <<>>)
      [] OTHER -> Fail("UnexpectedType")

\* the OBJECT loop leaving the cursor in front of the sentinel record
RECURSIVE read_members_unread(_, _, _)
read_members_unread(data, pos, kvpairs) ==
    LET kt == read_key_and_type(data, pos)
    IN IF ~kt.ok THEN kt
       ELSE IF kt.type = ObjectEnd
            THEN [ok |-> TRUE, why |-> "", value |-> Object(kvpairs), pos |-> pos]
       ELSE LET rv == read_value(kt.type, data, kt.pos)
            IN IF ~rv.ok THEN rv
               ELSE read_members_unread(data, rv.pos, Append(kvpairs, Pair(kt.key, rv.value)))

\* the OBJECT loop reading a padding byte after every member
RECURSIVE read_members_padded(_, _, _)
read_members_padded(data, pos, kvpairs) ==
    LET kt == read_key_and_type(data, pos)
    IN IF ~kt.ok THEN kt
       ELSE IF kt.type = ObjectEnd
            THEN [ok |-> TRUE, why |-> "", value |-> Object(kvpairs), pos |-> kt.pos]
       ELSE LET rv == read_value(kt.type, data, kt.pos)
            IN IF ~rv.ok THEN rv
               ELSE IF ~CanRead(data, rv.pos, 1) THEN Fail("UnexpectedEof")
               ELSE read_members_padded(data, rv.pos + 1,
                                        Append(kvpairs, Pair(kt.key, rv.value)))

\* the loop of the OBJECT arm of read_value
read_members(data, pos, kvpairs) ==
    LET kt == read_key_and_type(data, pos)
    IN IF ~kt.ok THEN kt
       ELSE IF kt.type = ObjectEnd
            THEN [ok |-> TRUE, why |-> "", value |-> Object(kvpairs), pos |-> kt.pos]
       ELSE LET rv == read_value(kt.type, data, kt.pos)
            IN IF ~rv.ok THEN rv
               ELSE read_members(data, rv.pos, Append(kvpairs, Pair(kt.key, rv.value)))

\* read_amf0 without the read of the padding byte after a pair
RECURSIVE read_amf0_loop_nopad(_, _, _, _, _)
read_amf0_loop_nopad(data, pos, len, kvpairs, over) ==
    IF u32_be(pos - HeaderOffset) = len
    THEN [ok |-> TRUE, why |-> "", pairs |-> kvpairs, pos |-> pos, over |-> over]
    ELSE LET nowOver == over \/ U32Less(len, u32_be(pos - HeaderOffset))
             kt == read_key_and_type(data, pos)
         IN IF ~kt.ok THEN [ok |-> FALSE, why |-> kt.why, pairs |-> kvpairs, pos |-> pos,
                            over |-> nowOver]
            ELSE LET rv == read_value(kt.type, data, kt.pos)
                 IN IF ~rv.ok THEN [ok |-> FALSE, why |-> rv.why, pairs |-> kvpairs,
                                    pos |-> kt.pos, over |-> nowOver]
                    ELSE read_amf0_loop_nopad(data, rv.pos, len,
                                              Append(kvpairs, Pair(kt.key, rv.value)), nowOver)

\* read_amf0; over records that a loop test found the cursor beyond len
RECURSIVE read_amf0_loop(_, _, _, _, _)
read_amf0_loop(data, pos, len, kvpairs, over) ==
    IF u32_be(pos - HeaderOffset) = len
    THEN [ok |-> TRUE, why |-> "", pairs |-> kvpairs, pos |-> pos, over |-> over]
    ELSE LET nowOver == over \/ U32Less(len, u32_be(pos - HeaderOffset))
             kt == read_key_and_type(data, pos)
         IN IF ~kt.ok THEN [ok |-> FALSE, why |-> kt.why, pairs |-> kvpairs, pos |-> pos,
                            over |-> nowOver]
            ELSE LET rv == read_value(kt.type, data, kt.pos)
                 IN IF ~rv.ok THEN [ok |-> FALSE, why |-> rv.why, pairs |-> kvpairs,
                                    pos |-> kt.pos, over |-> nowOver]
                    ELSE IF ~CanRead(data, rv.pos, 1)
                         THEN [ok |-> FALSE, why |-> "UnexpectedEof",
                               pairs |-> Append(kvpairs, Pair(kt.key, rv.value)),
                               pos |-> rv.pos, over |-> nowOver]
                    ELSE read_amf0_loop(data, rv.pos + 1, len,
                                        Append(kvpairs, Pair(kt.key, rv.value)), nowOver)

read_amf0(data, pos, len) == read_amf0_loop(data, pos, len, <<>>, FALSE)

amf_ver_spec(b) == IF b = Amf0ID THEN "Amf0" ELSE IF b = Amf3ID THEN "Amf3" ELSE "None"

\* read_from_file up to the dispatch on the AMF version
read_header(data) ==
    IF ~CanRead(data, 0, 2) THEN Fail("UnexpectedEof")
    ELSE IF SubSeq(data, 1, 2) # BF_MAGIC THEN Fail("UnsupportedFormat")
    ELSE IF ~CanRead(data, 2, 4) THEN Fail("UnexpectedEof")
    ELSE IF ~CanRead(data, 6, 4) THEN Fail("UnexpectedEof")
    ELSE IF SubSeq(data, 7, 10) # TCSO_MAGIC THEN Fail("MalformedHeader")
    ELSE IF ~CanRead(data, 10, 6) THEN Fail("UnexpectedEof")
    ELSE IF SubSeq(data, 11, 16) # TAIL_MAGIC THEN Fail("MalformedHeader")
    ELSE IF ~CanRead(data, 16, 2) THEN Fail("UnexpectedEof")
    ELSE LET root_name_len == get_u16(data, 16)
             root_name == SubSeq(data, 19, 18 + root_name_len)
             p == 18 + root_name_len
         IN IF ~CanRead(data, 18, root_name_len) THEN Fail("UnexpectedEof")
            ELSE IF ~from_utf8_ok(root_name) THEN Fail("Utf8Decode")
            ELSE IF ~CanRead(data, p, 4) THEN Fail("UnexpectedEof")
            ELSE IF amf_ver_spec(data[p + 4]) = "None" THEN Fail("UnknownVersion")
            ELSE [ok |-> TRUE, why |-> "", len |-> get_u32(data, 2), root_name |-> root_name,
                  amf_ver |-> amf_ver_spec(data[p + 4]), pos |-> p + 4]

(***************************************************************************)
(* A .sol file as the Flash runtime leaves it on disk, in the layout the   *)
(* decoder reads: members of a nested object carry no padding byte and the *)
(* object ends with an empty key followed by type tag 9.                   *)
(***************************************************************************)
RECURSIVE FilePairs(_, _)
FileValue(value) ==
    CASE value.t = "Num" -> value.v
      [] value.t = "Bool" -> <<IF value.v THEN 1 ELSE 0>>
      [] value.t = "String" -> u16_be(Len(value.v)) \o value.v
      [] value.t = "Object" -> FilePairs(value.v, TRUE) \o <<0, 0, ObjectEnd>>

FilePairs(list, nested) ==
    IF list = <<>> THEN <<>>
    ELSE u16_be(Len(list[1].key)) \o list[1].key \o <<type_(list[1].value)>>
           \o FileValue(list[1].value) \o (IF nested THEN <<>> ELSE <<0>>)
           \o FilePairs(Tail(list), nested)

Amf0File(root_name, list) ==
    LET body == FilePairs(list, FALSE)
    IN BF_MAGIC \o u32_be(16 + Len(root_name) + Len(body)) \o TCSO_MAGIC \o TAIL_MAGIC
         \o u16_be(Len(root_name)) \o root_name \o <<0, 0, 0, Amf0ID>> \o body

\* the same file with every record, nested members included, in the layout
\* of a top-level record: [u16 key_len][key][tag][payload][padding]
RECURSIVE PaddedPairs(_)
PaddedValue(value) ==
    CASE value.t = "Num" -> value.v
      [] value.t = "Bool" -> <<IF value.v THEN 1 ELSE 0>>
      [] value.t = "String" -> u16_be(Len(value.v)) \o value.v
      [] value.t = "Object" -> PaddedPairs(value.v) \o <<0, 0, ObjectEnd>>

PaddedPairs(list) ==
    IF list = <<>> THEN <<>>
    ELSE u16_be(Len(list[1].key)) \o list[1].key \o <<type_(list[1].value)>>
           \o PaddedValue(list[1].value) \o <<0>> \o PaddedPairs(Tail(list))

PaddedFile(root_name, list) ==
    LET body == PaddedPairs(list)
    IN BF_MAGIC \o u32_be(16 + Len(root_name) + Len(body)) \o TCSO_MAGIC \o TAIL_MAGIC
         \o u16_be(Len(root_name)) \o root_name \o <<0, 0, 0, Amf0ID>> \o body

(***************************************************************************)
(* State.                                                                  *)
(*   sol      the Sol in memory (NoSol: none yet)                          *)
(*   disk     the bytes of the file                                        *)
(*   st       "run", or "panic" once the process has aborted               *)
(*   lastOp   the operation that produced this state                       *)
(*   res      its outcome                                                  *)
(*   src      the Sol whose completed Sol::write produced disk, while disk *)
(*            is as written                                                *)
(*   foreign  the contents of the file that was on disk at start, while    *)
(*            that file has not been overwritten                           *)
(*   origin   the bytes sol was decoded from, when Sol::write made them    *)
(*   prev     the Sol::write completed before len was assigned: Sol, bytes *)
(*   damaged  the file on disk at start was damaged outside the program    *)
(*   filter_string  the editor's filter field                              *)
(*   frame    whether the last frame of the editor hid a pair, and whether *)
(*            a widget of a pair received input                            *)
(***************************************************************************)
NoRes == [kind |-> "None", why |-> "", over |-> FALSE, pos |-> 0]
NoBytes == [set |-> FALSE, bytes |-> <<>>]
NoPrev == [set |-> FALSE, doc |-> NoSol, bytes |-> <<>>]
NoFrame == [hid |-> FALSE, input |-> FALSE]

LenVals == {u32_be(7)}
TamperVals == {0, 3, 9, 255}

\* external decoder of the amf crate: its result lists, kept abstract
Amf3Lists == {<<Pair(<<110>>, [t |-> "Null", v |-> 0])>>}

\* a file damaged outside the program: one byte replaced, or cut short
Damage(f) ==
    ({[f EXCEPT ![i] = v] : i \in 1..Len(f), v \in TamperVals} \ {f})
      \cup {SubSeq(f, 1, k) : k \in 0..(Len(f) - 1)}

\* a library caller has built a Sol with Sol::new
InitNew ==
    /\ sol \in Docs
    /\ disk = <<>>
    /\ foreign = NoSol
    /\ damaged = FALSE

\* soledit and soldump start from a file that is already on disk
InitFile ==
    /\ sol = NoSol
    /\ \E r \in RootNames, l \in ListsOf(MaxPairs) :
          /\ foreign = New(r, l)
          /\ \/ disk = Amf0File(r, l) /\ damaged = FALSE
             \/ /\ Len(Amf0File(r, l)) <= MaxTamperLen
                /\ disk \in Damage(Amf0File(r, l))
                /\ damaged = TRUE

InitRest ==
    /\ st = "run"
    /\ lastOp = "new"
    /\ res = NoRes
    /\ src = NoSol
    /\ origin = NoBytes
    /\ prev = NoPrev
    /\ filter_string = <<>>
    /\ frame = NoFrame

Init == (InitNew \/ InitFile) /\ InitRest

\* a caller assigns the public field len
SetLen(l) ==
    /\ st = "run"
    /\ sol # NoSol
    /\ sol.len # l
    /\ sol' = [sol EXCEPT !.len = l]
    /\ lastOp' = "setlen"
    /\ res' = NoRes
    /\ origin' = NoBytes
    /\ prev' = IF src # NoSol THEN [set |-> TRUE, doc |-> src, bytes |-> disk] ELSE NoPrev
    /\ UNCHANGED <<disk, st, src, foreign, damaged, filter_string, frame>>

\* Sol::write into a sink that holds pre bytes and is positioned at its end
Write(pre) ==
    /\ sol.ver = Amf0ID
    /\ \E r \in {SolWrite(sol, Sink(Rep(pre, 0), pre))} :
          /\ disk' = r.w.buf
          /\ st' = IF r.ok THEN "run" ELSE "panic"
          /\ res' = [kind |-> IF r.ok THEN "Ok" ELSE "Panic",
                     why |-> IF r.ok THEN "" ELSE "todo", over |-> FALSE, pos |-> r.w.pos]
          /\ src' = IF r.ok /\ pre = 0 THEN sol ELSE NoSol
    /\ lastOp' = "write"
    /\ foreign' = NoSol
    /\ UNCHANGED <<sol, origin, prev, damaged, filter_string, frame>>

\* Sol::write_to_file: File::create gives an empty sink at position 0
WriteToFile ==
    /\ st = "run"
    /\ sol # NoSol
    /\ Write(0)

\* Sol::write into a sink a caller has already written to
WriteSeeked ==
    /\ st = "run"
    /\ sol # NoSol
    /\ \E pre \in 1..MaxPre : Write(pre)

\* read_from_file; the AMF3 body is decoded by the amf crate
ReadFromFile ==
    /\ st = "run"
    /\ \E h \in {read_header(disk)} :
          IF ~h.ok
          THEN /\ st' = "panic"
               /\ res' = [kind |-> "Panic", why |-> h.why, over |-> FALSE, pos |-> 0]
               /\ sol' = sol
               /\ origin' = origin
          ELSE IF h.amf_ver = "Amf0"
          THEN \E r \in {read_amf0(disk, h.pos, h.len)} :
                  /\ st' = IF r.ok THEN "run" ELSE "panic"
                  /\ res' = [kind |-> IF r.ok THEN "Ok" ELSE "Panic", why |-> r.why,
                             over |-> r.over, pos |-> r.pos]
                  /\ sol' = IF r.ok THEN Sol(Amf0ID, h.len, h.root_name, r.pairs) ELSE sol
                  /\ origin' = IF r.ok /\ src # NoSol THEN [set |-> TRUE, bytes |-> disk]
                               ELSE IF r.ok THEN NoBytes ELSE origin
          ELSE IF u32_be(h.pos - HeaderOffset) = h.len
          THEN /\ st' = "run"
               /\ res' = [kind |-> "Ok", why |-> "", over |-> FALSE, pos |-> h.pos]
               /\ sol' = Sol(Amf3ID, h.len, h.root_name, <<>>)
               /\ origin' = NoBytes
          ELSE \/ /\ st' = "panic"
                  /\ res' = [kind |-> "Panic", why |-> "Amf3", over |-> FALSE, pos |-> h.pos]
                  /\ sol' = sol
                  /\ origin' = origin
               \/ \E l \in Amf3Lists :
                     /\ st' = "run"
                     /\ res' = [kind |-> "Ok", why |-> "", over |-> FALSE, pos |-> h.pos]
                     /\ sol' = Sol(Amf3ID, h.len, h.root_name, l)
                     /\ origin' = NoBytes
    /\ lastOp' = "read"
    /\ UNCHANGED <<disk, src, foreign, prev, damaged, filter_string, frame>>

Next ==
    \/ WriteToFile
    \/ WriteSeeked
    \/ ReadFromFile

Spec == Init /\ [][Next]_vars

\* a caller writes a Sol, assigns len and writes it again
LenInit == InitNew /\ InitRest

LenNext ==
    \/ \E l \in LenVals : SetLen(l)
    \/ WriteToFile

SpecLen == LenInit /\ [][LenNext]_vars

\* soldump reads a file whose nested members are laid out either way
NestedInit ==
    /\ sol = NoSol
    /\ \E r \in RootNames, l \in ListsOf(MaxPairs) :
          /\ foreign = New(r, l)
          /\ disk \in {Amf0File(r, l), PaddedFile(r, l)}
    /\ damaged = FALSE
    /\ InitRest

NestedNext == ReadFromFile

SpecNested == NestedInit /\ [][NestedNext]_vars

(***************************************************************************)
(* Properties.                                                             *)
(***************************************************************************)
MinimalDoc == <<Pair(<<110>>, Num(F64_3_5))>>

\* the largest string of a pair list, in bytes
RECURSIVE MaxStr(_)
MaxStr(list) ==
    IF list = <<>> THEN 0
    ELSE LET p == list[1]
             own == CASE p.value.t = "String" -> Len(p.value.v)
                      [] p.value.t = "Object" -> MaxStr(p.value.v)
                      [] OTHER -> 0
             rest == MaxStr(Tail(list))
             m == IF own > rest THEN own ELSE rest
         IN IF Len(p.key) > m THEN Len(p.key) ELSE m

Fits(s) == Len(s.root_name) < U16Mod /\ MaxStr(s.root_object) < U16Mod

\* the sink of the last write started empty at position 0
Fresh == res.pos = HeaderOffset \/ res.kind = "Panic"

\* C1: every AMF0 Document, nested Objects included, is written by Sol::write
\* and read back by read_from_file as a Document with the same root name, the
\* same pairs in the same order and the same values.
C1_RoundTrip ==
    /\ (lastOp = "write" /\ sol.ver = Amf0ID) => res.kind = "Ok"
    /\ (lastOp = "read" /\ src # NoSol) =>
          /\ res.kind = "Ok"
          /\ sol.root_name = src.root_name
          /\ sol.root_object = src.root_object

\* C2 as stated: the patched length field counts the value-list body alone
\* (13 for the minimal document).
C2_BodyOnly ==
    (lastOp = "write" /\ res.kind = "Ok" /\ src # NoSol) =>
       /\ get_u32(disk, 2) = u32_be(Len(disk) - 22 - Len(sol.root_name))
       /\ (sol.root_name = <<120>> /\ sol.root_object = MinimalDoc) =>
             get_u32(disk, 2) = u32_be(13)

\* C2 amended: after Sol::write completes, the 32-bit field patched two bytes
\* after the sink's start holds the final stream position minus 6; in a sink
\* that started empty that is every byte after the field, 16 + root name +
\* value-list body, and 30 for the minimal document.
C2_LengthField ==
    (lastOp = "write" /\ res.kind = "Ok") =>
       /\ get_u32(disk, res.pos - 4) = u32_be(Len(disk) - HeaderOffset)
       /\ src # NoSol =>
             /\ res.pos = HeaderOffset
             /\ Fits(sol) =>
                   get_u32(disk, 2) =
                      u32_be(16 + Len(sol.root_name) + Len(FilePairs(sol.root_object, FALSE)))
             /\ (sol.root_name = <<120>> /\ sol.root_object = MinimalDoc) =>
                   get_u32(disk, 2) = u32_be(30)

C2_Witness ==
    /\ lastOp = "write" /\ res.kind = "Ok" /\ src # NoSol
    /\ sol.root_name = <<120>> /\ sol.root_object = MinimalDoc
    /\ get_u32(disk, 2) = <<0, 0, 0, 30>>

\* C3: the bytes B of a completed Sol::write are read by read_from_file, and
\* writing the Document read gives B again, byte for byte.
C3_ReEncode ==
    /\ (lastOp = "read" /\ src # NoSol) => res.kind = "Ok"
    /\ (lastOp = "write" /\ origin.set /\ Fresh) => (res.kind = "Ok" /\ disk = origin.bytes)

\* C4: read_from_file returns a result for every buffer and never panics: bad
\* magic is the error UnsupportedFormat, a bad tail is MalformedHeader, and the
\* other decode failures are error values too.
C4_NoPanic ==
    lastOp = "read" =>
       /\ res.kind \in {"Ok", "Err"}
       /\ (Len(disk) >= 2 /\ SubSeq(disk, 1, 2) = <<0, 0>>) =>
             (res.kind = "Err" /\ res.why = "UnsupportedFormat")
       /\ (Len(disk) >= 16 /\ SubSeq(disk, 1, 2) = BF_MAGIC /\ SubSeq(disk, 7, 10) = TCSO_MAGIC
             /\ SubSeq(disk, 11, 16) = <<0, 0, 0, 0, 0, 0>>) =>
             (res.kind = "Err" /\ res.why = "MalformedHeader")

\* C5: a root name, key or String of exactly 65535 bytes is written and read
\* back unchanged; one of 65536 bytes or more makes the write fail with
\* StringTooLong instead of writing a truncated 16-bit length.
C5_StringBoundary ==
    /\ (lastOp = "write" /\ sol.ver = Amf0ID /\ ~HasObject(sol.root_object)) =>
          IF Fits(sol) THEN res.kind = "Ok"
          ELSE res.kind = "Err" /\ res.why = "StringTooLong"
    /\ (lastOp = "read" /\ src # NoSol /\ Fits(src)) =>
          (res.kind = "Ok" /\ sol.root_name = src.root_name
             /\ sol.root_object = src.root_object)

\* offset in the file of the payload of top-level pair i
PayloadStart(root_name, list, i) ==
    22 + Len(root_name) + Len(FilePairs(SubSeq(list, 1, i - 1), FALSE))
       + 2 + Len(list[i].key) + 1

\* C6: read_value with type tag 3, on an encoded Object of k members followed
\* by the sentinel tag 9, returns Object with exactly those k pairs in order,
\* without the sentinel, and leaves the cursor right after the sentinel byte.
C6_ObjectTermination ==
    (lastOp = "read" /\ foreign # NoSol /\ ~damaged) =>
       /\ res.kind = "Ok"
       /\ sol.root_object = foreign.root_object
       /\ \A i \in 1..Len(foreign.root_object) :
             foreign.root_object[i].value.t = "Object" =>
                LET start == PayloadStart(foreign.root_name, foreign.root_object, i)
                    rv == read_value(OBJECT, disk, start)
                IN /\ rv.ok
                   /\ rv.value = foreign.root_object[i].value
                   /\ Len(rv.value.v) = Len(foreign.root_object[i].value.v)
                   /\ rv.pos = start + Len(FileValue(foreign.root_object[i].value))
                   /\ disk[rv.pos] = ObjectEnd

C6_Witness ==
    /\ lastOp = "read" /\ foreign # NoSol /\ ~damaged /\ res.kind = "Ok"
    /\ \E i \in 1..Len(sol.root_object) :
          /\ sol.root_object[i].value.t = "Object"
          /\ Len(sol.root_object[i].value.v) >= 1

\* C7: for a pair whose value is Object the encoder writes tag 3, the members
\* and the sentinel tag 9, and the decoder reads the bytes back as that Object.
C7_ObjectEncoding ==
    (lastOp = "write" /\ sol.ver = Amf0ID /\ HasObject(sol.root_object) /\ Fits(sol)) =>
       /\ res.kind = "Ok"
       /\ Fresh => disk = Amf0File(sol.root_name, sol.root_object)

\* C9: read_amf0 returns exactly when cursor - 6 equals the declared length,
\* and once the cursor has passed the declared length without matching it the
\* decode fails with LengthMismatch.
C9_Framing ==
    lastOp = "read" =>
       /\ (res.kind = "Ok" /\ sol.ver = Amf0ID) => u32_be(res.pos - HeaderOffset) = sol.len
       /\ res.over => (res.kind = "Err" /\ res.why = "LengthMismatch")

\* C10: two Documents that differ only in len are written by Sol::write as
\* the same bytes; the length field comes from the bytes emitted.
C10_LenIgnored ==
    (lastOp = "write" /\ res.kind = "Ok" /\ Fresh /\ prev.set
       /\ prev.doc.root_name = sol.root_name /\ prev.doc.root_object = sol.root_object) =>
       /\ disk = prev.bytes
       /\ get_u32(disk, 2) = u32_be(Len(disk) - HeaderOffset)

C10_Witness ==
    /\ lastOp = "write" /\ res.kind = "Ok" /\ Fresh /\ prev.set
    /\ prev.doc.root_name = sol.root_name /\ prev.doc.root_object = sol.root_object
    /\ prev.doc.len # sol.len
    /\ sol.root_object # <<>>

\* number of members of nested objects in a pair list, at every depth
RECURSIVE Members(_, _)
Members(list, nested) ==
    IF list = <<>> THEN 0
    ELSE (IF nested THEN 1 ELSE 0)
           + (IF list[1].value.t = "Object" THEN Members(list[1].value.v, TRUE) ELSE 0)
           + Members(Tail(list), nested)

\* the read has consumed the whole file and returned the file's Document
Decoded ==
    /\ res.kind = "Ok"
    /\ sol.root_name = foreign.root_name
    /\ sol.root_object = foreign.root_object
    /\ res.pos = Len(disk)

\* C11 as stated: a file whose nested members are full records, each with a
\* padding byte after its payload, is decoded to its Document, the decoder
\* consuming every byte.
C11_NestedPadding ==
    (lastOp = "read" /\ foreign # NoSol
       /\ disk = PaddedFile(foreign.root_name, foreign.root_object)) => Decoded

\* C11: a member of a nested Object is decoded as [u16 key_len][key bytes]
\* [u8 type_tag][payload] with no padding byte: the next key or the sentinel
\* is read right after the payload, so a file with unpadded members decodes
\* to its Document in one byte less per member than the padded layout, and a
\* file with a padding byte after a nested member does not decode to it.
C11_NestedRecords ==
    (lastOp = "read" /\ foreign # NoSol) =>
       /\ disk = Amf0File(foreign.root_name, foreign.root_object) =>
             /\ Decoded
             /\ res.pos = Len(PaddedFile(foreign.root_name, foreign.root_object))
                             - Members(foreign.root_object, FALSE)
       /\ (disk = PaddedFile(foreign.root_name, foreign.root_object)
             /\ Members(foreign.root_object, FALSE) > 0) => ~Decoded

C11_Witness ==
    /\ lastOp = "read" /\ foreign # NoSol /\ Decoded
    /\ disk = Amf0File(foreign.root_name, foreign.root_object)
    /\ Members(sol.root_object, FALSE) > 0

\* the cursor at the head of the loop of read_amf0 after k passes through its
\* body, whatever the exit test says
RECURSIVE Boundary(_, _, _)
Boundary(data, pos, k) ==
    IF k = 0 THEN [ok |-> TRUE, pos |-> pos]
    ELSE LET kt == read_key_and_type(data, pos)
         IN IF ~kt.ok THEN [ok |-> FALSE, pos |-> pos]
            ELSE LET rv == read_value(kt.type, data, kt.pos)
                 IN IF ~rv.ok \/ ~CanRead(data, rv.pos, 1) THEN [ok |-> FALSE, pos |-> pos]
                    ELSE Boundary(data, rv.pos + 1, k - 1)

\* C12: for a Sol<Amf0> without Object whose strings fit in 16 bits, written
\* into an empty sink, the exit test of read_amf0 (position - 6 = len) is false
\* at every record boundary before the end of the bytes and true at the end:
\* the read consumes every byte, none beyond, and returns as many pairs as
\* were written.
C12_FramingAgreement ==
    (lastOp = "read" /\ src # NoSol /\ ~HasObject(src.root_object) /\ Fits(src)) =>
       LET h == read_header(disk)
           n == Len(src.root_object)
       IN /\ h.ok
          /\ \A k \in 0..n :
                LET b == Boundary(disk, h.pos, k)
                IN /\ b.ok
                   /\ b.pos <= Len(disk)
                   /\ (u32_be(b.pos - HeaderOffset) = h.len) <=> (k = n)
          /\ Boundary(disk, h.pos, n).pos = Len(disk)
          /\ res.kind = "Ok" /\ ~res.over
          /\ res.pos = Len(disk)
          /\ Len(sol.root_object) = n

C12_Witness ==
    /\ lastOp = "read" /\ src # NoSol /\ ~HasObject(src.root_object) /\ Fits(src)
    /\ res.kind = "Ok"
    /\ Len(sol.root_object) >= 2

(***************************************************************************)
(* The editor (soledit): one frame draws the filter field and then walks   *)
(* the pair list.  An edit is what one widget receives in the frame.       *)
(***************************************************************************)
MaxEdits == 1

F64_0 == <<0, 0, 0, 0, 0, 0, 0, 0>>
UiNums == {F64_3_5, F64_0}
UiInts == {0, 1}
\* the keys and texts the editor shows: "" and "n"
UiStrs == {<<>>, <<110>>}

Amf3(t, v) == [t |-> t, v |-> v]

Amf3Edit == {"Boolean", "Integer", "Double", "String"}
Amf3Label == {"Null", "Date", "Array", "Object"}
Amf3Todo == {"Undefined", "XmlDocument", "Xml", "ByteArray", "IntVector", "UintVector",
             "DoubleVector", "ObjectVector", "Dictionary"}

\* the values in the files the editor opens: every variant with a widget,
\* one with a label, one whose arm is todo!()
Amf0Vals ==
    {Num(d) : d \in UiNums} \cup {Bool(b) : b \in BOOLEAN}
      \cup {String(x) : x \in UiStrs} \cup {Object(<<>>)}
Amf3Vals ==
    {Amf3("Boolean", b) : b \in BOOLEAN} \cup {Amf3("Integer", n) : n \in UiInts}
      \cup {Amf3("Double", d) : d \in UiNums} \cup {Amf3("String", x) : x \in UiStrs}
      \cup {Amf3("Null", 0), Amf3("Undefined", 0)}

RECURSIVE UiListsOf(_, _)
UiListsOf(n, vals) ==
    IF n = 0 THEN {<<>>}
    ELSE {<<>>} \cup { <<Pair(k, v)>> \o rest :
                         k \in UiStrs, v \in vals, rest \in UiListsOf(n - 1, vals) }

\* str::contains
contains(key, pat) ==
    \E i \in 0..(Len(key) - Len(pat)) : SubSeq(key, i + 1, i + Len(pat)) = pat

\* the filter test that hides a pair: every pair passes
Shown_all(pair, filter) == TRUE

\* `if !pair.key.contains(filter_string) { continue; }`
Shown(pair, filter) == contains(pair.key, filter)

\* the arm of the match on the value: a widget that edits it, a label, or todo!()
Arm0(value) == IF value.t = "Object" THEN "todo" ELSE "edit"
Arm3(value) ==
    IF value.t \in Amf3Edit THEN "edit" ELSE IF value.t \in Amf3Label THEN "label" ELSE "todo"

\* what the widget of a value can turn it into
Drag0(value) ==
    CASE value.t = "Num" -> {Num(d) : d \in UiNums \ {value.v}}
      [] value.t = "Bool" -> {Bool(~value.v)}
      [] value.t = "String" -> {String(x) : x \in UiStrs \ {value.v}}
      [] OTHER -> {}
Drag3(value) ==
    CASE value.t = "Boolean" -> {Amf3("Boolean", ~value.v)}
      [] value.t = "Integer" -> {Amf3("Integer", n) : n \in UiInts \ {value.v}}
      [] value.t = "Double" -> {Amf3("Double", d) : d \in UiNums \ {value.v}}
      [] value.t = "String" -> {Amf3("String", x) : x \in UiStrs \ {value.v}}
      [] OTHER -> {}

\* the match of ui_amf0 (ver 0) or ui_amf3 (ver 3)
Arm(ver, value) == IF ver = Amf0ID THEN Arm0(value) ELSE Arm3(value)
Drag(ver, value) == IF ver = Amf0ID THEN Drag0(value) ELSE Drag3(value)

\* index of the first shown pair whose arm is todo!(), Len + 1 when there is none
PanicAt(list, filter, ver) ==
    LET bad == {i \in 1..Len(list) : Shown(list[i], filter) /\ Arm(ver, list[i].value) = "todo"}
    IN IF bad = {} THEN Len(list) + 1 ELSE CHOOSE i \in bad : \A j \in bad : i <= j

\* the input the widgets of one frame can receive: the filter field comes
\* first (i = 0), then the key field and the value widget of each shown pair
WidgetEdits(list, filter, ver) ==
    LET stop == PanicAt(list, filter, ver)
        seen == {i \in 1..Len(list) : i <= stop /\ Shown(list[i], filter)}
    IN UNION { {[i |-> i, f |-> "key", new |-> String(k)] :
                   k \in UiStrs \ {list[i].key}} : i \in seen }
       \cup UNION { {[i |-> i, f |-> "value", new |-> v] : v \in Drag(ver, list[i].value)} :
                    i \in {j \in seen : Arm(ver, list[j].value) = "edit"} }

RECURSIVE EditSets(_, _)
EditSets(all, n) ==
    IF n = 0 THEN {{}}
    ELSE LET less == EditSets(all, n - 1)
         IN less \cup UNION { {E \cup {e} :
                                  e \in {x \in all : \A y \in E : x.i # y.i \/ x.f # y.f}} :
                               E \in less }

\* the loop over root_object of ui_amf0 / ui_amf3
Walk(list, filter, E, ver) ==
    LET stop == PanicAt(list, filter, ver)
        keyOf(i) == IF \E e \in E : e.i = i /\ e.f = "key"
                    THEN (CHOOSE e \in E : e.i = i /\ e.f = "key").new.v
                    ELSE list[i].key
        valOf(i) == IF \E e \in E : e.i = i /\ e.f = "value"
                    THEN (CHOOSE e \in E : e.i = i /\ e.f = "value").new
                    ELSE list[i].value
    IN [list |-> [i \in 1..Len(list) |->
                     IF i > stop \/ ~Shown(list[i], filter) THEN list[i]
                     ELSE Pair(keyOf(i), valOf(i))],
        ok |-> stop > Len(list)]

ui_amf0(root_object, filter, E) == Walk(root_object, filter, E, Amf0ID)
ui_amf3(root_object, filter, E) == Walk(root_object, filter, E, Amf3ID)

\* soledit has read a file and opened its window
UiInit ==
    /\ \/ \E l \in UiListsOf(MaxPairs, Amf0Vals) :
             sol = Sol(Amf0ID, <<0, 0, 0, 0>>, <<120>>, l)
       \/ \E l \in UiListsOf(MaxPairs, Amf3Vals) :
             sol = Sol(Amf3ID, <<0, 0, 0, 0>>, <<120>>, l)
    /\ disk = <<>>
    /\ st = "run"
    /\ lastOp = "read"
    /\ res = NoRes
    /\ src = NoSol
    /\ foreign = NoSol
    /\ origin = NoBytes
    /\ prev = NoPrev
    /\ damaged = FALSE
    /\ filter_string = <<>>
    /\ frame = NoFrame

\* the closure passed to do_frame: the filter field, then the walk; the
\* frame's input goes to at most MaxEdits widgets
Frame(ver) ==
    \E f \in ShortStrs :
       /\ Cardinality({f} \ {filter_string}) <= MaxEdits
       /\ \E E \in EditSets(WidgetEdits(sol.root_object, f, ver),
                            MaxEdits - Cardinality({f} \ {filter_string})) :
             \E r \in {IF ver = Amf0ID THEN ui_amf0(sol.root_object, f, E)
                       ELSE ui_amf3(sol.root_object, f, E)} :
                /\ sol' = [sol EXCEPT !.root_object = r.list]
                /\ st' = IF r.ok THEN "run" ELSE "panic"
                /\ filter_string' = f
                /\ frame' = [hid |-> \E i \in 1..Len(sol.root_object) :
                                        ~contains(sol.root_object[i].key, f),
                             input |-> E # {}]
                /\ lastOp' = "frame"
                /\ UNCHANGED <<disk, res, src, foreign, origin, prev, damaged>>

\* one frame on a Sol<Amf0>
FrameAmf0 ==
    /\ st = "run"
    /\ sol.ver = Amf0ID
    /\ Frame(Amf0ID)

\* one frame on a Sol<Amf3>
FrameAmf3 ==
    /\ st = "run"
    /\ sol.ver = Amf3ID
    /\ Frame(Amf3ID)

UiNext == FrameAmf0 \/ FrameAmf3

SpecUi == UiInit /\ [][UiNext]_vars

\* C8: a frame of the editor keeps the length and order of the pair list and
\* leaves every pair the filter rejects as it was; with a filter that no key
\* contains the list after the frame is the list before it.
C8_FilterFrame ==
    [][lastOp' = "frame" =>
         /\ Len(sol'.root_object) = Len(sol.root_object)
         /\ \A i \in 1..Len(sol.root_object) :
               ~contains(sol.root_object[i].key, filter_string') =>
                  sol'.root_object[i] = sol.root_object[i]
         /\ (\A i \in 1..Len(sol.root_object) :
                ~contains(sol.root_object[i].key, filter_string')) =>
               sol'.root_object = sol.root_object]_vars

C8_Witness == lastOp = "frame" /\ frame.hid /\ frame.input

====
